---- MODULE Spec2Model ----
(***************************************************************************)
(* State-machine model of the Dashboard component of src/pages/index.js:   *)
(* the load cycle (fetchData), the search effect, the two paginated lists  *)
(* and the pagination helpers.                                             *)
(*                                                                         *)
(* Strings that the code inspects character by character (peer ids, the    *)
(* search query) are sequences of one-character strings; strings the code  *)
(* only stores or compares whole (versions, the timeframe, the error       *)
(* message) are TLA+ strings.                                              *)
(***************************************************************************)
EXTENDS Integers, Sequences, FiniteSets, TLC

VARIABLES
    mounted,          \* the component's mount effects have run
    metrics,          \* useState([])      line 51
    activeNodes,      \* useState([])      line 52
    timeframe,        \* useState("7d")    line 53
    loading,          \* useState(true)    line 54
    error,            \* useState(null)    line 55
    componentLoading, \* useState({...})   lines 56-61
    versionPage,      \* useState(1)       line 64
    peerPage,         \* useState(1)       line 65
    searchQuery,      \* useState("")      line 66
    searchResults,    \* useState([])      line 67
    isSearching,      \* useState(false)   line 68
    inflight,         \* the fetchData invocations that have not returned, oldest first
    returned,         \* the answers that the invocation of fetchData returning in the last step got
    pgData,           \* getPaginatedData: argument data
    pgPage,           \* getPaginatedData: argument page
    pgResult,         \* getPaginatedData: returned value
    pgCount,          \* getPageCount(data.length): returned value
    pgDone            \* getPaginatedData has been applied

vars == <<mounted, metrics, activeNodes, timeframe, loading, error, componentLoading,
          versionPage, peerPage, searchQuery, searchResults, isSearching,
          inflight, returned, pgData, pgPage, pgResult, pgCount, pgDone>>

uiVars == <<mounted, metrics, activeNodes, timeframe, loading, error, componentLoading,
            versionPage, peerPage, searchQuery, searchResults, isSearching,
            inflight, returned>>

pgVars == <<pgData, pgPage, pgResult, pgCount, pgDone>>

----------------------------------------------------------------------------
(* Bounds of the model *)

\* fetchData invocations that may be in flight at once
MaxInFlight == 2
\* rows held by the remote metrics table when it is not empty
MaxMetricRows == 8
\* longest sequence handed to getPaginatedData
MaxItems == 12
\* largest page number handed to getPaginatedData
MaxPageArg == 4

----------------------------------------------------------------------------
(* Program constants *)

ITEMS_PER_PAGE == 5

Timeframes == {"7d", "30d", "1y"}

\* the value of the error state when no error is set (null)
NoError == "null"

\* the message of the Error thrown at line 122
NoDataMessage == "No data available"

\* the message carried by a failed query's error object
QueryErrorMessage == "Failed to fetch"

----------------------------------------------------------------------------
(* JavaScript string and array primitives the code calls *)

Min(a, b) == IF a < b THEN a ELSE b

Max(a, b) == IF a > b THEN a ELSE b

\* String.prototype.toLowerCase on one character
LowerChar(c) == IF c = "P" THEN "p" ELSE c

\* String.prototype.toLowerCase
toLowerCase(s) == [i \in 1..Len(s) |-> LowerChar(s[i])]

\* String.prototype.includes
includes(s, sub) ==
    \E i \in 0..(Len(s) - Len(sub)) : SubSeq(s, i + 1, i + Len(sub)) = sub

RECURSIVE trimStart(_)
trimStart(s) ==
    IF s # <<>> /\ Head(s) = " " THEN trimStart(Tail(s)) ELSE s

RECURSIVE trimEnd(_)
trimEnd(s) ==
    IF s # <<>> /\ s[Len(s)] = " " THEN trimEnd(SubSeq(s, 1, Len(s) - 1)) ELSE s

\* String.prototype.trim
trim(s) == trimEnd(trimStart(s))

\* Array.prototype.slice(start, end)
slice(arr, start, end) ==
    LET n == Len(arr)
        from == IF start < 0 THEN Max(n + start, 0) ELSE Min(start, n)
        to == IF end < 0 THEN Max(n + end, 0) ELSE Min(end, n)
    IN  SubSeq(arr, from + 1, to)

\* Math.ceil(a / b) for a >= 0, b > 0
ceilDiv(a, b) == IF a % b = 0 THEN a \div b ELSE (a \div b) + 1

----------------------------------------------------------------------------
(* Pagination helpers, lines 133-140 *)

getPaginatedData_offByOne(data, page) ==
    LET startIndex == page * ITEMS_PER_PAGE
    IN  slice(data, startIndex, startIndex + ITEMS_PER_PAGE)

getPaginatedData(data, page) ==
    LET startIndex == (page - 1) * ITEMS_PER_PAGE
    IN  slice(data, startIndex, startIndex + ITEMS_PER_PAGE)

getPageCount(totalItems) == ceilDiv(totalItems, ITEMS_PER_PAGE)

----------------------------------------------------------------------------
(* The remote data source: what the two queries can be answered *)

\* a query answer { data, error }: error is NoError or a message; data is
\* null (isNull) or the sequence rows
Failure == [error |-> QueryErrorMessage, isNull |-> TRUE, rows |-> <<>>]

NullData == [error |-> NoError, isNull |-> TRUE, rows |-> <<>>]

Rows(rs) == [error |-> NoError, isNull |-> FALSE, rows |-> rs]

\* the value of a local variable that has not been assigned
Undefined == [isNull |-> TRUE, rows |-> <<>>]

\* the limit of the metrics query, line 105
Limit(tf) == IF tf = "7d" THEN 7 ELSE IF tf = "30d" THEN 30 ELSE 365

\* the first n rows of the metrics table in ascending date order
MetricRows(n) == [i \in 1..n |-> [date |-> i, new_records_count |-> 1]]

MetricsResponses(limit) ==
    {Failure, NullData, Rows(<<>>), Rows(MetricRows(Min(limit, MaxMetricRows)))}

P1 == <<"P", "1">>

p1 == <<"p", "1">>

P2 == <<"P", "2">>

p2 == <<"p", "2">>

Node(id, v, n) == [peer_id |-> id, version |-> v, peer_count |-> n]

\* three records of two peers (two observations of the first)
NodesSmall == <<Node(P1, "1.0", 4), Node(P1, "1.0", 6), Node(p2, "1.1", 2)>>

\* eight records of seven peers running six versions
NodesBig ==
    <<Node(P1, "1.0", 1), Node(p2, "1.1", 2), Node(P2, "1.2", 3), Node(p1, "1.3", 4),
      Node(<<"1", "P">>, "1.4", 5), Node(<<"2", "p">>, "1.5", 6),
      Node(<<"1", "2">>, "1.0", 7), Node(P1, "1.0", 8)>>

NodesResponses == {Failure, NullData, Rows(<<>>), Rows(NodesSmall), Rows(NodesBig)}

\* what a query answered, as seen from outside the program
Kind(resp) ==
    IF resp.error # NoError THEN "failed"
    ELSE IF resp.isNull THEN "null"
    ELSE IF resp.rows = <<>> THEN "empty" ELSE "rows"

----------------------------------------------------------------------------
(* Aggregator, lines 196-216 *)

RECURSIVE uniq(_, _)
uniq(s, seen) ==
    IF s = <<>> THEN <<>>
    ELSE IF Head(s) \in seen THEN uniq(Tail(s), seen)
    ELSE <<Head(s)>> \o uniq(Tail(s), seen \cup {Head(s)})

activePeerIdsOf_noSet(nodes) == [i \in 1..Len(nodes) |-> nodes[i].peer_id]

\* [...new Set(activeNodes.map((node) => node.peer_id))], line 200
activePeerIdsOf(nodes) == uniq([i \in 1..Len(nodes) |-> nodes[i].peer_id], {})

activePeerIds == activePeerIdsOf(activeNodes)

\* Object.entries(versionDistribution), lines 202-209: one <<version, count>>
\* entry per version, in the order the versions are first met
versionEntriesOf(nodes) ==
    LET vs == uniq([i \in 1..Len(nodes) |-> nodes[i].version], {})
    IN  [k \in 1..Len(vs) |->
            <<vs[k], Cardinality({i \in 1..Len(nodes) : nodes[i].version = vs[k]})>>]

versionEntries == versionEntriesOf(activeNodes)

paginatedVersions == getPaginatedData(versionEntries, versionPage)

\* line 211: a non-empty query string is truthy, blank or not
displayPeerIds == IF searchQuery # <<>> THEN searchResults ELSE activePeerIds

paginatedPeerIds == getPaginatedData(displayPeerIds, peerPage)

totalVersionPages == getPageCount(Len(versionEntries))

totalPeerPages == getPageCount(Len(displayPeerIds))

----------------------------------------------------------------------------
(* Search filter, lines 76-81 *)

matches_caseSensitive(peerId, query) == includes(peerId, query)

matches(peerId, query) == includes(toLowerCase(peerId), toLowerCase(query))

filterPeerIds(ids, query) == SelectSeq(ids, LAMBDA peerId : matches(peerId, query))

----------------------------------------------------------------------------
(* Initial state: the useState initialisers, lines 51-68 *)

AllLoading == [metrics |-> TRUE, nodes |-> TRUE, versions |-> TRUE, peers |-> TRUE]

\* no invocation of fetchData returned in the last step
NoneReturned == [metrics |-> "none", nodes |-> "none", alone |-> FALSE]

UiInit ==
    /\ mounted = FALSE
    /\ metrics = <<>>
    /\ activeNodes = <<>>
    /\ timeframe = "7d"
    /\ loading = TRUE
    /\ error = NoError
    /\ componentLoading = AllLoading
    /\ versionPage = 1
    /\ peerPage = 1
    /\ searchQuery = <<>>
    /\ searchResults = <<>>
    /\ isSearching = FALSE
    /\ inflight = <<>>
    /\ returned = NoneReturned

Init ==
    /\ UiInit
    /\ pgData = <<>>
    /\ pgPage = 1
    /\ pgResult = <<>>
    /\ pgCount = 0
    /\ pgDone = FALSE

----------------------------------------------------------------------------
(* The load cycle, lines 89-130 *)

\* an invocation of fetchData suspended at one of its two awaits
Frame(pc, limit, metricsData, overlapped) ==
    [pc |-> pc, limit |-> limit, metricsData |-> metricsData,
     overlapped |-> overlapped, latest |-> TRUE]

RemoveAt(s, i) == SubSeq(s, 1, i - 1) \o SubSeq(s, i + 1, Len(s))

\* the invocations in flight, once one more has started
Overtaken(fs) ==
    [i \in 1..Len(fs) |-> [fs[i] EXCEPT !.overlapped = TRUE, !.latest = FALSE]]

\* the node_records query of the suspended invocation f has been issued (lines 112-115)
nodesQueryIssued(f) == f.pc = "awaitNodes"

fetchDataStart_bothQueries(tf) ==
    /\ Len(inflight) < MaxInFlight
    /\ loading' = TRUE
    /\ error' = NoError
    /\ componentLoading' = AllLoading
    /\ inflight' = Append(Overtaken(inflight),
                          Frame("awaitNodes", 0, Undefined, inflight # <<>>))

\* lines 90-105: the synchronous part of fetchData, up to the first await
fetchDataStart(tf) ==
    /\ Len(inflight) < MaxInFlight
    /\ loading' = TRUE
    /\ error' = NoError
    /\ componentLoading' = AllLoading
    /\ inflight' = Append(Overtaken(inflight),
                          Frame("awaitMetrics", Limit(tf), Undefined, inflight # <<>>))

fetchDataThrow_logOnly(message) ==
    /\ error' = error
    /\ loading' = FALSE

fetchDataThrow_noFinally(message) ==
    /\ error' = message
    /\ loading' = loading

\* lines 124-129: catch and finally
fetchDataThrow(message) ==
    /\ error' = message
    /\ loading' = FALSE

\* line 121: !metricsData?.length && !nodesData?.length
noData_either(metricsData, nodesData) ==
    \/ (metricsData.isNull \/ Len(metricsData.rows) = 0)
    \/ (nodesData.isNull \/ Len(nodesData.rows) = 0)

noData(metricsData, nodesData) ==
    /\ (metricsData.isNull \/ Len(metricsData.rows) = 0)
    /\ (nodesData.isNull \/ Len(nodesData.rows) = 0)

MetricsResolve_latestOnly(i, resp) ==
    /\ inflight[i].pc = "awaitMetrics"
    /\ IF resp.error # NoError
       THEN /\ fetchDataThrow(resp.error)
            /\ inflight' = RemoveAt(inflight, i)
            /\ returned' = [metrics |-> Kind(resp), nodes |-> "none",
                            alone |-> ~inflight[i].overlapped]
            /\ UNCHANGED <<metrics, componentLoading>>
       ELSE /\ IF inflight[i].latest
               THEN /\ metrics' = resp.rows
                    /\ componentLoading' = [componentLoading EXCEPT !.metrics = FALSE]
               ELSE UNCHANGED <<metrics, componentLoading>>
            /\ inflight' = [inflight EXCEPT ![i] =
                   [@ EXCEPT !.pc = "awaitNodes", !.limit = 0,
                             !.metricsData = [isNull |-> resp.isNull, rows |-> resp.rows]]]
            /\ returned' = NoneReturned
            /\ UNCHANGED <<error, loading>>
    /\ UNCHANGED <<mounted, activeNodes, timeframe, versionPage, peerPage,
                   searchQuery, searchResults, isSearching>>
    /\ UNCHANGED pgVars

\* lines 101-115: the metrics query of invocation i is answered
MetricsResolve(i, resp) ==
    /\ inflight[i].pc = "awaitMetrics"
    /\ IF resp.error # NoError
       THEN /\ fetchDataThrow(resp.error)
            /\ inflight' = RemoveAt(inflight, i)
            /\ returned' = [metrics |-> Kind(resp), nodes |-> "none",
                            alone |-> ~inflight[i].overlapped]
            /\ UNCHANGED <<metrics, componentLoading>>
       ELSE /\ metrics' = resp.rows
            /\ componentLoading' = [componentLoading EXCEPT !.metrics = FALSE]
            /\ inflight' = [inflight EXCEPT ![i] =
                   [@ EXCEPT !.pc = "awaitNodes", !.limit = 0,
                             !.metricsData = [isNull |-> resp.isNull, rows |-> resp.rows]]]
            /\ returned' = NoneReturned
            /\ UNCHANGED <<error, loading>>
    /\ UNCHANGED <<mounted, activeNodes, timeframe, versionPage, peerPage,
                   searchQuery, searchResults, isSearching>>
    /\ UNCHANGED pgVars

NodesResolve_nodesFlagOnly(i, resp) ==
    /\ inflight[i].pc = "awaitNodes"
    /\ inflight' = RemoveAt(inflight, i)
    /\ returned' = [metrics |-> Kind([error |-> NoError,
                                      isNull |-> inflight[i].metricsData.isNull,
                                      rows |-> inflight[i].metricsData.rows]),
                    nodes |-> Kind(resp),
                    alone |-> ~inflight[i].overlapped]
    /\ IF resp.error # NoError
       THEN /\ fetchDataThrow(resp.error)
            /\ UNCHANGED <<activeNodes, componentLoading>>
       ELSE /\ activeNodes' = resp.rows
            /\ componentLoading' = [componentLoading EXCEPT !.nodes = FALSE]
            /\ IF noData(inflight[i].metricsData, resp)
               THEN fetchDataThrow(NoDataMessage)
               ELSE /\ loading' = FALSE
                    /\ UNCHANGED error
    /\ UNCHANGED <<mounted, metrics, timeframe, versionPage, peerPage,
                   searchQuery, searchResults, isSearching>>
    /\ UNCHANGED pgVars

\* lines 112-129: the node_records query of invocation i is answered
NodesResolve(i, resp) ==
    /\ inflight[i].pc = "awaitNodes"
    /\ inflight' = RemoveAt(inflight, i)
    /\ returned' = [metrics |-> Kind([error |-> NoError,
                                      isNull |-> inflight[i].metricsData.isNull,
                                      rows |-> inflight[i].metricsData.rows]),
                    nodes |-> Kind(resp),
                    alone |-> ~inflight[i].overlapped]
    /\ IF resp.error # NoError
       THEN /\ fetchDataThrow(resp.error)
            /\ UNCHANGED <<activeNodes, componentLoading>>
       ELSE /\ activeNodes' = resp.rows
            /\ componentLoading' = [componentLoading EXCEPT
                   !.nodes = FALSE, !.versions = FALSE, !.peers = FALSE]
            /\ IF noData(inflight[i].metricsData, resp)
               THEN fetchDataThrow(NoDataMessage)
               ELSE /\ loading' = FALSE
                    /\ UNCHANGED error
    /\ UNCHANGED <<mounted, metrics, timeframe, versionPage, peerPage,
                   searchQuery, searchResults, isSearching>>
    /\ UNCHANGED pgVars

\* lines 70-87 on mount: both effects run; the search effect finds an empty query
Mount ==
    /\ ~mounted
    /\ mounted' = TRUE
    /\ searchResults' = <<>>
    /\ fetchDataStart(timeframe)
    /\ UNCHANGED <<metrics, activeNodes, timeframe, versionPage, peerPage,
                   searchQuery, isSearching>>
    /\ returned' = NoneReturned
    /\ UNCHANGED pgVars

\* lines 246-256 and 70-72: the select changes the timeframe, the effect reloads
SetTimeframe(tf) ==
    /\ mounted
    /\ tf # timeframe
    /\ timeframe' = tf
    /\ fetchDataStart(tf)
    /\ UNCHANGED <<mounted, metrics, activeNodes, versionPage, peerPage,
                   searchQuery, searchResults, isSearching>>
    /\ returned' = NoneReturned
    /\ UNCHANGED pgVars

\* lines 257-268: the refresh button, disabled while loading
Refresh ==
    /\ mounted
    /\ ~loading
    /\ fetchDataStart(timeframe)
    /\ UNCHANGED <<mounted, metrics, activeNodes, timeframe, versionPage, peerPage,
                   searchQuery, searchResults, isSearching>>
    /\ returned' = NoneReturned
    /\ UNCHANGED pgVars

----------------------------------------------------------------------------
(* What is rendered, lines 350-353, 527-533 and 592-606 *)

\* line 351: the error view replaces the content when the error is truthy
errorViewShown == error # NoError /\ error # ""

versionControlsShown ==
    /\ ~errorViewShown
    /\ ~componentLoading.versions
    /\ Len(versionEntries) # 0

\* line 602: 'No matching peer IDs found'
noMatchesShown ==
    /\ ~errorViewShown
    /\ ~componentLoading.peers
    /\ Len(activePeerIds) # 0
    /\ ~isSearching
    /\ searchQuery # <<>> /\ Len(searchResults) = 0

peerListShown ==
    /\ ~errorViewShown
    /\ ~componentLoading.peers
    /\ Len(activePeerIds) # 0
    /\ ~isSearching
    /\ ~(searchQuery # <<>> /\ Len(searchResults) = 0)

----------------------------------------------------------------------------
(* Search and pagination events *)

\* the texts typed into the search input: empty, only whitespace, one letter met
\* in most peer ids, two characters met in some, and a text that is not blank
\* but starts with whitespace
Queries == {<<>>, <<" ">>, <<"P">>, <<"P", "1">>, <<" ", "P">>}

\* lines 580-588 and 75-87: the input changes the query, the effect refilters.
\* isSearching is set and cleared within the one effect.
SetSearchQuery(q) ==
    /\ mounted
    /\ ~errorViewShown
    /\ q # searchQuery
    /\ searchQuery' = q
    /\ IF trim(q) # <<>>
       THEN /\ searchResults' = filterPeerIds(activePeerIds, q)
            /\ peerPage' = 1
            /\ isSearching' = FALSE
       ELSE /\ searchResults' = <<>>
            /\ UNCHANGED <<peerPage, isSearching>>
    /\ UNCHANGED <<mounted, metrics, activeNodes, timeframe, loading, error,
                   componentLoading, versionPage, inflight>>
    /\ returned' = NoneReturned
    /\ UNCHANGED pgVars

\* lines 144-146 with 556-561
VersionPrev ==
    /\ versionControlsShown
    /\ ~(versionPage <= 1)
    /\ versionPage' = versionPage - 1
    /\ UNCHANGED <<mounted, metrics, activeNodes, timeframe, loading, error,
                   componentLoading, peerPage, searchQuery, searchResults,
                   isSearching, inflight>>
    /\ returned' = NoneReturned
    /\ UNCHANGED pgVars

\* lines 155-157 with 556-561
VersionNext ==
    /\ versionControlsShown
    /\ ~(versionPage >= totalVersionPages)
    /\ versionPage' = versionPage + 1
    /\ UNCHANGED <<mounted, metrics, activeNodes, timeframe, loading, error,
                   componentLoading, peerPage, searchQuery, searchResults,
                   isSearching, inflight>>
    /\ returned' = NoneReturned
    /\ UNCHANGED pgVars

\* lines 144-146 with 623-628
PeerPrev ==
    /\ peerListShown
    /\ ~(peerPage <= 1)
    /\ peerPage' = peerPage - 1
    /\ UNCHANGED <<mounted, metrics, activeNodes, timeframe, loading, error,
                   componentLoading, versionPage, searchQuery, searchResults,
                   isSearching, inflight>>
    /\ returned' = NoneReturned
    /\ UNCHANGED pgVars

PeerNext_bothPages ==
    /\ peerListShown
    /\ ~(peerPage >= totalPeerPages)
    /\ peerPage' = peerPage + 1
    /\ versionPage' = peerPage + 1
    /\ UNCHANGED <<mounted, metrics, activeNodes, timeframe, loading, error,
                   componentLoading, searchQuery, searchResults,
                   isSearching, inflight>>
    /\ returned' = NoneReturned
    /\ UNCHANGED pgVars

\* lines 155-157 with 623-628
PeerNext ==
    /\ peerListShown
    /\ ~(peerPage >= totalPeerPages)
    /\ peerPage' = peerPage + 1
    /\ UNCHANGED <<mounted, metrics, activeNodes, timeframe, loading, error,
                   componentLoading, versionPage, searchQuery, searchResults,
                   isSearching, inflight>>
    /\ returned' = NoneReturned
    /\ UNCHANGED pgVars

----------------------------------------------------------------------------
(* The component *)

Next ==
    \/ Mount
    \/ \E tf \in Timeframes : SetTimeframe(tf)
    \/ Refresh
    \/ \E i \in 1..Len(inflight) :
          \E resp \in MetricsResponses(inflight[i].limit) : MetricsResolve(i, resp)
    \/ \E i \in 1..Len(inflight) : \E resp \in NodesResponses : NodesResolve(i, resp)
    \/ \E q \in Queries : SetSearchQuery(q)
    \/ VersionPrev
    \/ VersionNext
    \/ PeerPrev
    \/ PeerNext

Spec == Init /\ [][Next]_vars

----------------------------------------------------------------------------
(* The pagination helpers applied to arbitrary arguments *)

InitPaginate ==
    /\ UiInit
    /\ pgData \in {[i \in 1..n |-> i] : n \in 0..MaxItems}
    /\ pgPage \in 0..MaxPageArg
    /\ pgResult = <<>>
    /\ pgCount = 0
    /\ pgDone = FALSE

Paginate ==
    /\ ~pgDone
    /\ pgResult' = getPaginatedData(pgData, pgPage)
    /\ pgCount' = getPageCount(Len(pgData))
    /\ pgDone' = TRUE
    /\ UNCHANGED <<pgData, pgPage>>
    /\ UNCHANGED uiVars

NextPaginate == Paginate

SpecPaginate == InitPaginate /\ [][NextPaginate]_vars

----------------------------------------------------------------------------
(* Properties of the load cycle *)

\* the load cycle that returned in the last step ran with no other cycle in
\* flight at any moment between its start and its return
returnedAlone == returned.alone

\* what the claim calls a failed load, read off the answers alone
returnedFailed ==
    \/ returned.metrics = "failed"
    \/ returned.nodes = "failed"
    \/ /\ returned.metrics \in {"null", "empty"}
       /\ returned.nodes \in {"null", "empty"}

\* C1: a load cycle that runs alone ends with the error message set and the
\* error view shown exactly when the metrics query failed, or the node_records
\* query failed, or both queries answered an empty or null collection;
\* otherwise it ends with no error set.
C1_AloneCycleErrorIffFailed ==
    returnedAlone =>
        /\ returnedFailed => (error # NoError /\ errorViewShown)
        /\ ~returnedFailed => (error = NoError /\ ~errorViewShown)

\* C1 witness: a cycle that ran alone got metrics rows, then a failed
\* node_records query, and the error view is shown
C1_Witness ==
    /\ returnedAlone
    /\ returned.metrics = "rows"
    /\ returned.nodes = "failed"
    /\ errorViewShown
    /\ ~loading

\* C2: every invocation clears the error and sets the four loading flags
\* before it issues a query, and once a newer cycle has started no outcome of
\* an earlier cycle shows: while the newest cycle is in flight the error is
\* clear, loading is set, and every flag that cycle has not cleared itself is
\* still set.
C2_NewestCycleSeesNoStaleOutcome ==
    \A i \in 1..Len(inflight) :
        inflight[i].latest =>
            /\ error = NoError
            /\ loading
            /\ componentLoading.nodes
            /\ componentLoading.versions
            /\ componentLoading.peers
            /\ (inflight[i].pc = "awaitMetrics" => componentLoading.metrics)

\* C3: whenever a load cycle is in flight the refresh control is disabled,
\* that is, loading is true.
C3_InFlightImpliesLoading == (inflight # <<>>) => loading

----------------------------------------------------------------------------
(* Properties of the search filter *)

\* the two characters are the same letter, case aside
sameLetter(a, b) == a = b \/ {a, b} = {"P", "p"}

\* q occurs in id at some offset, case aside
occursIn(q, id) ==
    \E d \in 0..(Len(id) - Len(q)) :
        \A k \in 1..Len(q) : sameLetter(id[d + k], q[k])

\* res is ids restricted to the entries q occurs in, in the order of ids
isFilterOf(res, ids, q) ==
    LET keep == {i \in 1..Len(ids) : occursIn(q, ids[i])}
        nth(j) == CHOOSE i \in keep : Cardinality({k \in keep : k <= i}) = j
    IN  /\ Len(res) = Cardinality(keep)
        /\ \A j \in 1..Len(res) : res[j] = ids[nth(j)]

\* the query is empty or consists only of whitespace
isBlank(q) == \A k \in 1..Len(q) : q[k] = " "

\* C4: for a blank query and a non-empty node collection the list offered
\* for display is the full distinct peer-id sequence and 'No matching peer
\* IDs found' is not shown.
C4_BlankQueryShowsAll ==
    (isBlank(searchQuery) /\ activeNodes # <<>>) =>
        /\ displayPeerIds = activePeerIds
        /\ ~noMatchesShown

\* C5: every change of the search query, to a blank query too, sets the peer
\* list's page number to 1.
C5_QueryChangeResetsPeerPage ==
    [][searchQuery' # searchQuery => peerPage' = 1]_vars

\* C6: the version list's page number is unchanged by every search-query
\* change and every previous/next on the peer list; when it changes, the
\* version controls are shown, it moves by one page, and it is the only part
\* of the pagination and search state that changes.
C6_VersionPageIndependent ==
    [][/\ (searchQuery' # searchQuery \/ peerPage' # peerPage)
              => versionPage' = versionPage
       /\ versionPage' # versionPage
              => /\ versionControlsShown
                 /\ versionPage' \in {versionPage - 1, versionPage + 1}
                 /\ UNCHANGED <<peerPage, searchQuery, searchResults, activeNodes>>
      ]_vars

\* C6 witness: the version list is on page 2 while a query has been typed
\* (which reset the peer page) and the peer list has been moved to page 2
C6_Witness ==
    /\ versionPage = 2
    /\ peerPage = 2
    /\ searchQuery = <<"P">>
    /\ Len(searchResults) = 6

\* C7: under a non-blank query the displayed peer-id sequence is the
\* case-insensitive substring filter of the distinct peer ids of the node
\* collection now held.
C7_DisplayedIsFilterOfHeld ==
    ~isBlank(searchQuery) => isFilterOf(displayPeerIds, activePeerIds, searchQuery)

\* C8: for each paginated list that is not empty the page number is within
\* 1..pageCount.
C8_PageWithinRange ==
    /\ Len(versionEntries) > 0 =>
           (1 <= versionPage /\ versionPage <= totalVersionPages)
    /\ Len(displayPeerIds) > 0 =>
           (1 <= peerPage /\ peerPage <= totalPeerPages)

\* C10: when the query changes to a non-blank value the search results set
\* in that very step are the distinct peer ids that contain the query, case
\* aside, in the order of the distinct peer-id sequence, and no searching
\* state is left behind.
C10_ResultsAreFilterAtChange ==
    [][(searchQuery' # searchQuery /\ ~isBlank(searchQuery'))
          => /\ isFilterOf(searchResults', activePeerIdsOf(activeNodes'), searchQuery')
             /\ ~isSearching'
      ]_vars

\* C10 witness: the query P1 over the seven peers leaves P1 and p1, in that order
C10_Witness ==
    /\ activeNodes = NodesBig
    /\ searchQuery = <<"P", "1">>
    /\ searchResults = <<P1, p1>>

----------------------------------------------------------------------------
(* Properties of the pagination helpers *)

\* C9: for page >= 1, getPaginatedData(seq, page) is the items of seq at the
\* 0-based positions (page-1)*5 .. page*5-1 that exist, at most 5 of them,
\* and is empty for page > getPageCount(len(seq)); getPageCount(n) is
\* ceil(n/5): 0 for 0, 1 for 5, 2 for 6.
C9_PaginateContract ==
    (pgDone /\ pgPage >= 1) =>
        LET n == Len(pgData)
            positions == {k \in 0..(n - 1) : (pgPage - 1) * 5 <= k /\ k <= pgPage * 5 - 1}
        IN  /\ Len(pgResult) = Cardinality(positions)
            /\ \A j \in 1..Len(pgResult) : pgResult[j] = pgData[(pgPage - 1) * 5 + j]
            /\ Len(pgResult) <= 5
            /\ pgCount * 5 >= n /\ (pgCount - 1) * 5 < n
            /\ (n = 0 => pgCount = 0) /\ (n = 5 => pgCount = 1) /\ (n = 6 => pgCount = 2)
            /\ pgPage > pgCount => pgResult = <<>>

\* C9 witness: page 2 of six items is the sixth item alone
C9_Witness ==
    /\ pgDone
    /\ Len(pgData) = 6
    /\ pgPage = 2
    /\ pgResult = <<6>>
    /\ pgCount = 2

----------------------------------------------------------------------------
(* Properties of the aggregator *)

\* the position at which peer id x is first met in nodes
firstSeen(nodes, x) ==
    CHOOSE i \in 1..Len(nodes) :
        /\ nodes[i].peer_id = x
        /\ \A k \in 1..(i - 1) : nodes[k].peer_id # x

\* C11: the distinct peer-id sequence holds every peer_id of the held node
\* collection exactly once and nothing else, ordered by first occurrence in
\* the collection (ids A, A, B give [A, B] while three nodes are counted).
C11_DistinctPeerIdsInFirstSeenOrder ==
    LET ids == activePeerIds
        seen == [j \in 1..Len(ids) |-> firstSeen(activeNodes, ids[j])]
    IN  /\ \A i \in 1..Len(activeNodes) :
               Cardinality({j \in 1..Len(ids) : ids[j] = activeNodes[i].peer_id}) = 1
        /\ \A j \in 1..Len(ids) :
               \E i \in 1..Len(activeNodes) : activeNodes[i].peer_id = ids[j]
        /\ \A j \in 1..(Len(ids) - 1) : seen[j] < seen[j + 1]

\* C11 witness: two observations of P1 and one of p2 are held: three active
\* nodes, two distinct peer ids
C11_Witness ==
    /\ Len(activeNodes) = 3
    /\ activeNodes[1].peer_id = activeNodes[2].peer_id
    /\ activePeerIds = <<P1, p2>>

----------------------------------------------------------------------------
(* Properties of the order of the two queries *)

\* C12 as stated: in every load cycle both queries are issued without either
\* waiting on the other, so every invocation in flight has issued its
\* node_records query, and an invocation whose metrics query failed had
\* issued it too.
C12_BothQueriesIssuedTogether ==
    /\ \A i \in 1..Len(inflight) : nodesQueryIssued(inflight[i])
    /\ returned.metrics = "failed" => returned.nodes # "none"

\* C12 amended: the two queries are issued one after the other. An invocation
\* starts with the metrics query alone; its node_records query is issued in
\* the step that applies a metrics answer without error; an invocation returns
\* without having issued it exactly when its metrics query failed.
C12_NodesQueryAfterMetricsAnswer ==
    [][/\ Len(inflight') > Len(inflight)
              => ~nodesQueryIssued(inflight'[Len(inflight')])
       /\ \A i \in 1..Len(inflight) :
              (/\ Len(inflight') = Len(inflight)
               /\ ~nodesQueryIssued(inflight[i])
               /\ nodesQueryIssued(inflight'[i]))
              => /\ error' = error
                 /\ metrics' = inflight'[i].metricsData.rows
                 /\ ~componentLoading'.metrics
       /\ Len(inflight') < Len(inflight)
              => \E i \in 1..Len(inflight) :
                     /\ inflight' = RemoveAt(inflight, i)
                     /\ ~nodesQueryIssued(inflight[i]) <=> returned'.metrics = "failed"
                     /\ ~nodesQueryIssued(inflight[i]) <=> returned'.nodes = "none"
      ]_vars

\* C12 witness: one invocation has just returned on a failed metrics query
\* without a node_records query, while another, whose metrics query was
\* answered, waits for its node_records query
C12_Witness ==
    /\ returned.metrics = "failed"
    /\ returned.nodes = "none"
    /\ \E i \in 1..Len(inflight) : nodesQueryIssued(inflight[i])

----------------------------------------------------------------------------
(* Properties of overlapping load cycles *)

\* in this step the metrics query of the invocation at position i is answered
\* without error
metricsAnswered(i) ==
    /\ Len(inflight') = Len(inflight)
    /\ inflight[i].pc = "awaitMetrics"
    /\ inflight'[i].pc = "awaitNodes"

\* in this step an invocation returns after an answer to its node_records
\* query that is not an error
nodesAnswered ==
    /\ Len(inflight') < Len(inflight)
    /\ returned'.nodes \in {"null", "empty", "rows"}

\* C13: every answer is applied to the held collections in the step in which
\* it resolves, whichever invocation it belongs to, the newest or an earlier
\* one; the held collections change in no other step, so what is held once
\* every cycle has finished is what the last answers to resolve carried.
C13_LastAnswerWins ==
    [][/\ \A i \in 1..Len(inflight) :
              metricsAnswered(i) => metrics' = inflight'[i].metricsData.rows
       /\ metrics' # metrics => \E i \in 1..Len(inflight) : metricsAnswered(i)
       /\ nodesAnswered => (activeNodes' = <<>> <=> returned'.nodes \in {"null", "empty"})
       /\ activeNodes' # activeNodes => nodesAnswered
      ]_vars

\* C13 witness: every cycle has finished, the last to return is a cycle that
\* overlapped another, and the seven metrics rows held are those of the 7d
\* query although the timeframe selected is 30d
C13_Witness ==
    /\ inflight = <<>>
    /\ returned.metrics = "rows"
    /\ ~returned.alone
    /\ error = NoError
    /\ timeframe = "30d"
    /\ Len(metrics) = 7

----------------------------------------------------------------------------
(* Properties of the loading flags *)

\* C14: the versions flag and the peers flag equal the nodes flag in every
\* state; the metrics flag is the only one that can differ from them.
C14_VersionsPeersFollowNodes ==
    /\ componentLoading.versions = componentLoading.nodes
    /\ componentLoading.peers = componentLoading.nodes

\* C14 witness: a node_records answer has cleared the three flags together
\* while the metrics flag, set again by a newer cycle, is still loading
C14_Witness ==
    /\ ~componentLoading.nodes
    /\ ~componentLoading.versions
    /\ ~componentLoading.peers
    /\ componentLoading.metrics
    /\ inflight # <<>>


noFlagLoading ==
    /\ ~componentLoading.metrics
    /\ ~componentLoading.nodes
    /\ ~componentLoading.versions
    /\ ~componentLoading.peers

----------------------------------------------------------------------------
(* Termination of the load cycle *)

\* the query that the invocation at position i awaits is answered (lines 101, 112)
Answer(i) ==
    /\ i <= Len(inflight)
    /\ \/ \E resp \in MetricsResponses(inflight[i].limit) : MetricsResolve(i, resp)
       \/ \E resp \in NodesResponses : NodesResolve(i, resp)

\* every query that has been issued is eventually answered or fails
EveryQueryAnswered == \A i \in 1..MaxInFlight : WF_vars(Answer(i))

SpecLive == Init /\ [][Next]_vars /\ EveryQueryAnswered

\* the invocation in flight for longest returns
oldestReturns == inflight # <<>> /\ inflight' = Tail(inflight)

\* C16: if every issued query is eventually answered, every started load
\* cycle eventually finishes (again and again nothing is in flight or the
\* invocation in flight for longest returns, so each in turn does); a cycle
\* that returns, on any path, sets loading to false; and once no cycle
\* remains in flight the refresh control is enabled.
C16_EveryCycleFinishesAndEnablesRefresh ==
    /\ []<>(inflight = <<>>) \/ []<><<oldestReturns>>_vars
    /\ [][Len(inflight') < Len(inflight) => ~loading']_vars
    /\ []((mounted /\ inflight = <<>>) => ~loading)

\* C16 witness: a cycle has returned on a failed node_records query, nothing
\* is in flight and the refresh control is enabled
C16_Witness ==
    /\ mounted
    /\ inflight = <<>>
    /\ returned.nodes = "failed"
    /\ ~loading

====
